---- MODULE Spec2Model ----
(***************************************************************************)
(* TaskMaster (src/MyClassProject/src/TaskMaster.cpp): the task record,    *)
(* its pipe-delimited text form, and the task store driven by the menu     *)
(* loop of main().                                                         *)
(*                                                                         *)
(* Text is a sequence of one-character strings, so that serialize and      *)
(* deserialize are computed character by character as the code does.       *)
(* A Category, Priority or Status is the integer the enum class holds      *)
(* (static_cast from int can store any int in it).                         *)
(***************************************************************************)
EXTENDS Integers, Sequences, FiniteSets, TLC

VARIABLES tasks, nextId, file, pc, task, cinFail, choice, idArg, msg, issued, removed, ops,
          typed, query, results

vars == <<tasks, nextId, file, pc, task, cinFail, choice, idArg, msg, issued, removed, ops,
          typed, query, results>>

----------------------------------------------------------------------------
(* Bounds of the model *)

\* creates are enabled while the collection holds fewer records than this
MaxTasks == 3
\* creates are enabled while nextId is below this
MaxId == 6
\* the menu is read at most this many times in a session
MaxOps == 5

----------------------------------------------------------------------------
(* Enumerations, lines 129-145 *)

Work == 1
Personal == 2
Urgent == 3

Low == 1
Medium == 2
High == 3

Pending == 1
InProgress == 2
Completed == 3

Categories == {Work, Personal, Urgent}
Priorities == {Low, Medium, High}
Statuses == {Pending, InProgress, Completed}

----------------------------------------------------------------------------
(* Text constants *)

Pipe == "|"
Empty == << >>

S_Work == <<"W", "o", "r", "k">>
S_Personal == <<"P", "e", "r", "s", "o", "n", "a", "l">>
S_Urgent == <<"U", "r", "g", "e", "n", "t">>
S_Low == <<"L", "o", "w">>
S_Medium == <<"M", "e", "d", "i", "u", "m">>
S_High == <<"H", "i", "g", "h">>
S_Pending == <<"P", "e", "n", "d", "i", "n", "g">>
S_InProgress == <<"I", "n", " ", "P", "r", "o", "g", "r", "e", "s", "s">>
S_Completed == <<"C", "o", "m", "p", "l", "e", "t", "e", "d">>
S_Unknown == <<"U", "n", "k", "n", "o", "w", "n">>

Digits == <<"0", "1", "2", "3", "4", "5", "6", "7", "8", "9">>

IsDigit(c) == \E i \in 1..10 : Digits[i] = c

DigitVal(c) == (CHOOSE i \in 1..10 : Digits[i] = c) - 1

----------------------------------------------------------------------------
(* Enum <-> name conversions, lines 149-196 *)

stringToCategory(str) ==
    IF str = S_Work THEN Work
    ELSE IF str = S_Personal THEN Personal
    ELSE Urgent

categoryToString(category) ==
    CASE category = Work -> S_Work
      [] category = Personal -> S_Personal
      [] category = Urgent -> S_Urgent
      [] OTHER -> S_Unknown

stringToPriority(str) ==
    IF str = S_Low THEN Low
    ELSE IF str = S_Medium THEN Medium
    ELSE High

priorityToString(priority) ==
    CASE priority = Low -> S_Low
      [] priority = Medium -> S_Medium
      [] priority = High -> S_High
      [] OTHER -> S_Unknown

\* a conversion that falls back on the first status instead of the last
stringToStatusOrPending(str) ==
    IF str = S_Completed THEN Completed
    ELSE IF str = S_InProgress THEN InProgress
    ELSE Pending

stringToStatus(str) ==
    IF str = S_Pending THEN Pending
    ELSE IF str = S_InProgress THEN InProgress
    ELSE Completed

statusToString(status) ==
    CASE status = Pending -> S_Pending
      [] status = InProgress -> S_InProgress
      [] status = Completed -> S_Completed
      [] OTHER -> S_Unknown

----------------------------------------------------------------------------
(* Integer <-> text: operator<<(int) and std::stoi *)

RECURSIVE NatToStr(_)
NatToStr(n) ==
    IF n < 10 THEN <<Digits[n + 1]>>
    ELSE NatToStr(n \div 10) \o <<Digits[(n % 10) + 1]>>

\* oss << id, line 216
IntToStr(n) == IF n < 0 THEN <<"-">> \o NatToStr(0 - n) ELSE NatToStr(n)

RECURSIVE SkipSpaces(_, _)
SkipSpaces(s, i) ==
    IF i <= Len(s) /\ s[i] = " " THEN SkipSpaces(s, i + 1) ELSE i

RECURSIVE DigitRun(_, _, _)
\* the value of the digits of s from index i on, continuing from acc
DigitRun(s, i, acc) ==
    IF i <= Len(s) /\ IsDigit(s[i])
    THEN DigitRun(s, i + 1, acc * 10 + DigitVal(s[i]))
    ELSE acc

\* std::stoi(token), line 228: leading blanks, an optional sign, then digits up
\* to the first other character; ok = FALSE is the std::invalid_argument it
\* throws when no digit is there.
stoi(token) ==
    LET i == SkipSpaces(token, 1)
        signed == i <= Len(token) /\ token[i] \in {"-", "+"}
        j == IF signed THEN i + 1 ELSE i
        mag == DigitRun(token, j, 0)
    IN  IF j <= Len(token) /\ IsDigit(token[j])
        THEN [ok |-> TRUE,
              val |-> IF signed /\ token[i] = "-" THEN 0 - mag ELSE mag]
        ELSE [ok |-> FALSE, val |-> 0]

----------------------------------------------------------------------------
(* Task record, lines 200-250 *)

\* Task::Task(), line 210
NewTask ==
    [id |-> 0, title |-> Empty, description |-> Empty, category |-> Work,
     priority |-> Low, dueDate |-> Empty, status |-> Pending]

\* Task::serialize, lines 214-220
serialize(t) ==
    IntToStr(t.id) \o <<Pipe>> \o t.title \o <<Pipe>> \o t.description
        \o <<Pipe>> \o categoryToString(t.category)
        \o <<Pipe>> \o priorityToString(t.priority)
        \o <<Pipe>> \o t.dueDate
        \o <<Pipe>> \o statusToString(t.status)

\* std::istringstream iss(data), line 225: the buffer, the read position and
\* whether the stream is still good()
StreamOf(data) == [buf |-> data, pos |-> 1, good |-> TRUE]

RECURSIVE FindPipe(_, _)
\* index of the first '|' of s at or after i, or 0
FindPipe(s, i) ==
    IF i > Len(s) THEN 0
    ELSE IF s[i] = Pipe THEN i
    ELSE FindPipe(s, i + 1)

\* std::getline(iss, str, '|'): on a stream that is not good() it fails and
\* leaves str as it was (old); otherwise it stores the characters up to the
\* delimiter, which it consumes, or up to the end, which sets eofbit.
getline(st, old) ==
    IF ~st.good THEN [str |-> old, st |-> st]
    ELSE LET j == FindPipe(st.buf, st.pos)
         IN  IF j # 0
             THEN [str |-> SubSeq(st.buf, st.pos, j - 1),
                   st |-> [st EXCEPT !.pos = j + 1]]
             ELSE [str |-> SubSeq(st.buf, st.pos, Len(st.buf)),
                   st |-> [st EXCEPT !.pos = Len(st.buf) + 1, !.good = FALSE]]

\* Task::deserialize, lines 224-238, on the fresh Task of line 424.
\* ok = FALSE: std::stoi threw at line 228 (nothing after it ran).
deserialize(data) ==
    LET g1 == getline(StreamOf(data), Empty)
        n  == stoi(g1.str)
        g2 == getline(g1.st, NewTask.title)
        g3 == getline(g2.st, NewTask.description)
        g4 == getline(g3.st, g1.str)
        g5 == getline(g4.st, g4.str)
        g6 == getline(g5.st, NewTask.dueDate)
        g7 == getline(g6.st, g5.str)
    IN  [ok |-> n.ok,
         t  |-> IF ~n.ok THEN NewTask
                ELSE [id |-> n.val, title |-> g2.str, description |-> g3.str,
                      category |-> stringToCategory(g4.str),
                      priority |-> stringToPriority(g5.str),
                      dueDate |-> g6.str,
                      status |-> stringToStatus(g7.str)]]

----------------------------------------------------------------------------
(* What the user types and what the file system holds *)

Date1 == <<"2", "0", "2", "4", "-", "0", "5", "-", "1", "5">>
Date2 == <<"9", "9", "9", "9", "-", "9", "9", "-", "9", "9">>
DateSlashes == <<"2", "0", "2", "4", "/", "0", "5", "/", "1", "5">>
DateDayFirst == <<"1", "5", "-", "0", "5", "-", "2", "0", "2", "4">>
DateShort == <<"2", "0", "2", "4", "-", "5", "-", "1", "5">>

\* a token that operator>>(int&) cannot parse
NotANumber == <<"x">>

\* the path of a regular file, and a path that cannot be opened at all
GoodPath == "tasks.txt"
BadPath == "/no/such/dir/tasks.txt"
Paths == {GoodPath, BadPath}

\* lines typed at the title and description prompts of createTask
CreateTitles == {<<"a">>}
CreateDescriptions == {<<"d">>}
\* the two tokens typed at the category and priority prompts of createTask
CreateChoices ==
    { <<(<<"1">>), (<<"2">>)>>, <<(<<"4">>), (<<"0">>)>>, <<NotANumber, (<<"2">>)>> }
\* lines typed at the due date prompt of createTask
CreateDates == {Date1, DateSlashes, DateShort}

\* tokens typed at the id prompts of editTask and deleteTask
IdTokens == {<<"0">>, <<"1">>, <<"2">>, <<"5">>}

\* what is typed at the six prompts of editTask after the id
EditInputs ==
    { [title |-> Empty, description |-> Empty, category |-> <<"0">>,
       priority |-> <<"0">>, dueDate |-> Empty, status |-> <<"0">>],
      [title |-> Empty, description |-> Empty, category |-> <<"4">>,
       priority |-> <<"-", "1">>, dueDate |-> DateDayFirst, status |-> <<"7">>],
      [title |-> <<"b">>, description |-> <<"e">>, category |-> <<"2">>,
       priority |-> <<"3">>, dueDate |-> Date2, status |-> <<"3">>],
      [title |-> Empty, description |-> Empty, category |-> <<"0">>,
       priority |-> <<"0">>, dueDate |-> Empty, status |-> <<"2">>] }

\* the locals of editTask and of searchFilterTasks outside a call: nothing
\* typed, no criterion and value read
NothingTyped ==
    [title |-> Empty, description |-> Empty, category |-> Empty,
     priority |-> Empty, dueDate |-> Empty, status |-> Empty]
NoQuery == <<0, 0>>

Line(id, title, description, category, priority, dueDate, status) ==
    id \o <<Pipe>> \o title \o <<Pipe>> \o description \o <<Pipe>> \o category
       \o <<Pipe>> \o priority \o <<Pipe>> \o dueDate \o <<Pipe>> \o status

\* files that may lie at GoodPath when the program starts
FileIds251 ==
    << Line(<<"2">>, <<"a">>, <<"d">>, S_Work, S_Low, Date1, S_Pending),
       Empty,
       Line(<<"5">>, <<"b">>, <<"e">>, S_Personal, S_High, Date2, S_Completed),
       Line(<<"1">>, <<"c">>, Empty, S_Urgent, S_Medium, Date1, S_Pending) >>

FileDuplicateIds ==
    << Line(<<"1">>, <<"a">>, <<"d">>, S_Work, S_Low, Date1, S_Pending),
       Line(<<"0">>, <<"b">>, <<"d">>, S_Work, S_Low, Date1, S_InProgress),
       Line(<<"1">>, <<"c">>, <<"d">>, S_Urgent, S_High, Date1, S_Completed) >>

FileBadId ==
    << Line(<<"3">>, <<"a">>, <<"d">>, S_Work, S_Low, Date1, S_Pending),
       Line(<<"x">>, <<"b">>, <<"d">>, S_Work, S_Low, Date1, S_Pending) >>

NoFile == [exists |-> FALSE, lines |-> << >>]
FileOf(lines) == [exists |-> TRUE, lines |-> lines]

FileNegativeId ==
    << Line(<<"-", "2">>, <<"a">>, <<"d">>, S_Work, S_Low, Date1, S_Pending) >>

InitFiles ==
    { NoFile, FileOf(FileIds251), FileOf(FileDuplicateIds), FileOf(FileBadId),
      FileOf(FileNegativeId) }

----------------------------------------------------------------------------
(* std::cin *)

\* std::cin >> n, with the stream's failbit before the read: a read on a failed
\* stream leaves n alone, and n is then an uninitialized local, so any value the
\* token could have given; a token that is no number stores 0 and sets failbit.
cinInt(fail, tok) ==
    LET n == stoi(tok)
    IN  [val |-> IF n.ok THEN n.val ELSE 0, fail |-> fail \/ ~n.ok]

\* std::getline(std::cin, str): a read on a failed stream leaves str as it was
cinLine(fail, line, old) == IF fail THEN old ELSE line

----------------------------------------------------------------------------
(* TaskManager, lines 254-508 *)

\* a validator that looks at the length alone
validateDateLengthOnly(date) == Len(date) = 10

\* TaskManager::validateDate, lines 502-507 (C++ indices 4 and 7)
validateDate(date) ==
    /\ Len(date) = 10
    /\ date[5] = "-"
    /\ date[8] = "-"

\* a createTask that forgets the increment
NextIdNotAdvanced(n) == n

\* nextId++, line 266: the counter after a create
NextIdAfterCreate(n) == n + 1

\* a load that sets the counter to the largest id itself
NextIdIsMaxId(maxId) == maxId

\* nextId = maxId + 1, line 429
NextIdAfterLoad(maxId) == maxId + 1

\* an insert at the front instead of the back
push_front(s, t) == <<t>> \o s

\* tasks.push_back(task), lines 298 and 426
push_back(s, t) == Append(s, t)

\* a load that forgets to empty the collection first
not_cleared(s) == s

\* tasks.clear(), line 419
clear(s) == << >>

RECURSIVE find_if(_, _, _)
\* TaskManager::findTaskById, lines 496-498: the index of the first record
\* with this id, from index i on; Len(s) + 1 stands for tasks.end()
find_if(s, id, i) ==
    IF i > Len(s) THEN i
    ELSE IF s[i].id = id THEN i
    ELSE find_if(s, id, i + 1)

\* a search that falls back on the first record when no record has the id
find_or_first(s, id) ==
    IF find_if(s, id, 1) > Len(s) /\ Len(s) > 0 THEN 1 ELSE find_if(s, id, 1)

findTaskById(s, id) == find_if(s, id, 1)

\* an erase from the first match to the end, without the remove_if
erase_from_first_match(s, id) == SubSeq(s, 1, find_if(s, id, 1) - 1)

RECURSIVE remove_if(_, _)
\* std::remove_if + erase of lines 381-383: the records whose id is not the
\* given one, in their order
remove_if(s, id) ==
    IF s = << >> THEN << >>
    ELSE IF Head(s).id = id THEN remove_if(Tail(s), id)
    ELSE <<Head(s)>> \o remove_if(Tail(s), id)

RECURSIVE LoadLinesSkippingBad(_, _, _, _)
\* a load that skips the lines deserialize cannot parse
LoadLinesSkippingBad(lines, i, acc, maxId) ==
    IF i > Len(lines) THEN [ok |-> TRUE, tasks |-> acc, maxId |-> maxId]
    ELSE IF lines[i] = Empty \/ ~deserialize(lines[i]).ok
         THEN LoadLinesSkippingBad(lines, i + 1, acc, maxId)
    ELSE LET d == deserialize(lines[i])
         IN  LoadLinesSkippingBad(lines, i + 1, push_back(acc, d.t),
                                  IF d.t.id > maxId THEN d.t.id ELSE maxId)

RECURSIVE LoadLines(_, _, _, _)
\* the loop of loadTasks, lines 422-428, from line i of the file on.
\* ok = FALSE: deserialize threw on line i; the exception leaves loadTasks.
LoadLines(lines, i, acc, maxId) ==
    IF i > Len(lines) THEN [ok |-> TRUE, tasks |-> acc, maxId |-> maxId]
    ELSE IF lines[i] = Empty THEN LoadLines(lines, i + 1, acc, maxId)
    ELSE LET d == deserialize(lines[i])
         IN  IF ~d.ok THEN [ok |-> FALSE, tasks |-> acc, maxId |-> maxId]
             ELSE LoadLines(lines, i + 1, push_back(acc, d.t),
                            IF d.t.id > maxId THEN d.t.id ELSE maxId)

\* the loop of saveTasks, lines 401-403
SaveLines(s) == [i \in 1..Len(s) |-> serialize(s[i])]

----------------------------------------------------------------------------
(* State after construction: TaskManager(), line 260, and main, lines 512-515 *)

Init ==
    /\ tasks = << >>
    /\ nextId = 1
    /\ file \in InitFiles
    /\ pc = "menu"
    /\ task = NewTask
    /\ cinFail = FALSE
    /\ choice = 0
    /\ idArg = 0
    /\ msg = "Welcome to TaskMaster!"
    /\ issued = {}
    /\ removed = {}
    /\ ops = 0
    /\ typed = NothingTyped
    /\ query = NoQuery
    /\ results = << >>

----------------------------------------------------------------------------
(* main, lines 517-558: std::cin >> choice and the switch *)

\* the menu read gives k: typed as k on a good stream; on a failed stream the
\* read leaves choice as it was
Chosen(k) ==
    /\ pc = "menu"
    /\ ops < MaxOps
    /\ ops' = ops + 1
    /\ cinFail => choice = k
    /\ choice' = k

\* a menu choice that is no number: line 528 stores 0 and sets failbit, and
\* the switch takes its default
MenuNotANumber ==
    /\ pc = "menu"
    /\ ops < MaxOps
    /\ ops' = ops + 1
    /\ ~cinFail
    /\ choice' = 0
    /\ cinFail' = TRUE
    /\ msg' = "Invalid choice. Please try again."
    /\ idArg' = 0
    /\ typed' = NothingTyped
    /\ query' = NoQuery
    /\ results' = << >>
    /\ UNCHANGED <<tasks, nextId, file, pc, task, issued, removed>>

\* default:, lines 555-556
MenuInvalid ==
    /\ \E k \in {0, 9} : Chosen(k)
    /\ msg' = "Invalid choice. Please try again."
    /\ idArg' = 0
    /\ typed' = NothingTyped
    /\ query' = NoQuery
    /\ results' = << >>
    /\ UNCHANGED <<tasks, nextId, file, pc, task, cinFail, issued, removed>>

\* case 8, lines 552-554
Exit ==
    /\ Chosen(8)
    /\ pc' = "exited"
    /\ msg' = "Exiting TaskMaster. Goodbye!"
    /\ idArg' = 0
    /\ typed' = NothingTyped
    /\ query' = NoQuery
    /\ results' = << >>
    /\ UNCHANGED <<tasks, nextId, file, task, cinFail, issued, removed>>

----------------------------------------------------------------------------
(* TaskManager::createTask, lines 264-300 *)

\* lines 265-286: the id is taken and the counter advanced before any prompt
CreateTask(title, description, catTok, priTok) ==
    /\ Chosen(1)
    /\ nextId < MaxId
    /\ Len(tasks) < MaxTasks
    /\ LET c == cinInt(cinFail, catTok)
           p == cinInt(c.fail, priTok)
       IN  /\ task' = [NewTask EXCEPT
                         !.id = nextId,
                         !.title = cinLine(cinFail, title, NewTask.title),
                         !.description =
                             cinLine(cinFail, description, NewTask.description),
                         !.category = c.val,
                         !.priority = p.val]
           /\ cinFail' = p.fail
    /\ nextId' = NextIdAfterCreate(nextId)
    /\ issued' = issued \cup {nextId}
    /\ pc' = "dueDate"
    /\ msg' = "Enter Due Date (YYYY-MM-DD): "
    /\ idArg' = 0
    /\ typed' = NothingTyped
    /\ query' = NoQuery
    /\ results' = << >>
    /\ UNCHANGED <<tasks, file, removed>>

\* one round of the loop of lines 290-295, and lines 297-299 when it breaks
DueDate(line) ==
    /\ pc = "dueDate"
    /\ LET d == cinLine(cinFail, line, task.dueDate)
       IN  IF validateDate(d)
           THEN /\ tasks' = push_back(tasks, [task EXCEPT !.dueDate = d,
                                                           !.status = Pending])
                /\ task' = NewTask
                /\ pc' = "menu"
                /\ msg' = "Task has been created successfully!"
           ELSE /\ task' = [task EXCEPT !.dueDate = d]
                /\ msg' = "Invalid date format. Please try again."
                /\ UNCHANGED <<tasks, pc>>
    /\ UNCHANGED <<nextId, file, cinFail, choice, idArg, issued, removed, ops,
                   typed, query, results>>

----------------------------------------------------------------------------
(* TaskManager::viewTasks, lines 304-313 *)

ViewTasks ==
    /\ Chosen(2)
    /\ msg' = IF tasks = << >> THEN "No tasks available." ELSE "ID: "
    /\ idArg' = 0
    /\ typed' = NothingTyped
    /\ query' = NoQuery
    /\ results' = << >>
    /\ UNCHANGED <<tasks, nextId, file, pc, task, cinFail, issued, removed>>

----------------------------------------------------------------------------
(* TaskManager::editTask, lines 317-373 *)

\* an edit that stores the title and description lines even when they are empty
EditRecordOverwrites(t, in, fail) ==
    [t |-> [t EXCEPT !.title = in.title, !.description = in.description],
     fail |-> fail]

\* lines 327-370 on the record found: in is what is typed at the six prompts,
\* fail the state of std::cin after the id was read
EditRecord(t, in, fail) ==
    LET in1 == cinLine(fail, in.title, Empty)
        in2 == cinLine(fail, in.description, in1)
        c   == cinInt(fail, in.category)
        p   == cinInt(c.fail, in.priority)
        in3 == cinLine(p.fail, in.dueDate, in2)
        s   == cinInt(p.fail, in.status)
    IN  [t |-> [t EXCEPT
                  !.title = IF in1 # Empty THEN in1 ELSE @,
                  !.description = IF in2 # Empty THEN in2 ELSE @,
                  !.category = IF c.val >= 1 /\ c.val <= 3 THEN c.val ELSE @,
                  !.priority = IF p.val >= 1 /\ p.val <= 3 THEN p.val ELSE @,
                  !.dueDate = IF in3 # Empty /\ validateDate(in3) THEN in3 ELSE @,
                  !.status = IF s.val >= 1 /\ s.val <= 3 THEN s.val ELSE @],
         fail |-> s.fail]

EditTask(idTok, in) ==
    /\ Chosen(3)
    /\ LET id == cinInt(cinFail, idTok)
           it == findTaskById(tasks, id.val)
       IN  IF it = Len(tasks) + 1
           THEN /\ msg' = "Task not found."
                /\ cinFail' = id.fail
                /\ typed' = NothingTyped
                /\ UNCHANGED tasks
           ELSE LET e == EditRecord(tasks[it], in, id.fail)
                IN  /\ tasks' = [tasks EXCEPT ![it] = e.t]
                    /\ cinFail' = e.fail
                    /\ msg' = "Task updated successfully!"
                    /\ typed' = in
    /\ idArg' = cinInt(cinFail, idTok).val
    /\ query' = NoQuery
    /\ results' = << >>
    /\ UNCHANGED <<nextId, file, pc, task, issued, removed>>

----------------------------------------------------------------------------
(* TaskManager::deleteTask, lines 377-388 *)

DeleteTask(idTok) ==
    /\ Chosen(4)
    /\ LET id == cinInt(cinFail, idTok)
           kept == remove_if(tasks, id.val)
       IN  /\ cinFail' = id.fail
           /\ IF Len(kept) # Len(tasks)
              THEN /\ tasks' = kept
                   /\ removed' = removed \cup {id.val}
                   /\ msg' = "Task deleted successfully."
              ELSE /\ msg' = "Task not found."
                   /\ UNCHANGED <<tasks, removed>>
    /\ idArg' = cinInt(cinFail, idTok).val
    /\ typed' = NothingTyped
    /\ query' = NoQuery
    /\ results' = << >>
    /\ UNCHANGED <<nextId, file, pc, task, issued>>

----------------------------------------------------------------------------
(* TaskManager::saveTasks, lines 392-406, and loadTasks, lines 410-432 *)

\* std::cin >> filename: on a failed stream filename stays the empty string
cinPath(fail, path) == IF fail THEN "" ELSE path

\* std::ofstream ofs(filename); if (!ofs), lines 396-397: the stream is good
\* when the path can be created or truncated
ofstream_ok(filename) == filename = GoodPath

\* an input stream that reports itself good whatever the path
ifstream_never_fails(filename, f) == TRUE

\* std::ifstream ifs(filename); if (!ifs), lines 414-415: the stream is good
\* when the path names a file that exists
ifstream_ok(filename, f) == filename = GoodPath /\ f.exists

SaveTasks(path) ==
    /\ Chosen(5)
    /\ IF ~ofstream_ok(cinPath(cinFail, path))
       THEN /\ msg' = "Error opening file for writing."
            /\ UNCHANGED file
       ELSE /\ file' = FileOf(SaveLines(tasks))
            /\ msg' = "Tasks saved successfully."
    /\ idArg' = 0
    /\ typed' = NothingTyped
    /\ query' = NoQuery
    /\ results' = << >>
    /\ UNCHANGED <<tasks, nextId, pc, task, cinFail, issued, removed>>

LoadTasks(path) ==
    /\ Chosen(6)
    /\ IF ~ifstream_ok(cinPath(cinFail, path), file)
       THEN /\ msg' = "Error opening file for reading."
            /\ UNCHANGED <<tasks, nextId, pc>>
       ELSE LET r == LoadLines(file.lines, 1, clear(tasks), 0)
            IN  /\ tasks' = r.tasks
                /\ IF r.ok
                   THEN /\ nextId' = NextIdAfterLoad(r.maxId)
                        /\ msg' = "Tasks loaded successfully."
                        /\ UNCHANGED pc
                   ELSE /\ pc' = "aborted"
                        /\ msg' = "terminate called after throwing an instance of 'std::invalid_argument'"
                        /\ UNCHANGED nextId
    /\ idArg' = 0
    /\ typed' = NothingTyped
    /\ query' = NoQuery
    /\ results' = << >>
    /\ UNCHANGED <<file, task, cinFail, issued, removed>>

----------------------------------------------------------------------------
(* TaskManager::searchFilterTasks, lines 436-491 *)

\* a filter that compares the category whatever the criterion
MatchingByCategory(s, criterion, value) ==
    SelectSeq(s, LAMBDA t : t.category = value)

\* the loops of lines 449-452, 460-463 and 471-474
Matching(s, criterion, value) ==
    SelectSeq(s, LAMBDA t :
        CASE criterion = 1 -> t.category = value
          [] criterion = 2 -> t.priority = value
          [] criterion = 3 -> t.status = value)

SearchFilterTasks(critTok, valTok) ==
    /\ Chosen(7)
    /\ LET c == cinInt(cinFail, critTok)
           v == cinInt(c.fail, valTok)
       IN  IF c.val \in 1..3
           THEN /\ cinFail' = v.fail
                /\ msg' = IF Matching(tasks, c.val, v.val) = << >>
                          THEN "No tasks match the criteria."
                          ELSE "ID: "
                /\ query' = <<c.val, v.val>>
                /\ results' = Matching(tasks, c.val, v.val)
           ELSE /\ cinFail' = c.fail
                /\ msg' = "Invalid choice."
                /\ query' = <<c.val, 0>>
                /\ results' = << >>
    /\ idArg' = 0
    /\ typed' = NothingTyped
    /\ UNCHANGED <<tasks, nextId, file, pc, task, issued, removed>>

----------------------------------------------------------------------------

Next ==
    \/ MenuNotANumber
    \/ MenuInvalid
    \/ Exit
    \/ \E t \in CreateTitles, d \in CreateDescriptions, c \in CreateChoices :
            CreateTask(t, d, c[1], c[2])
    \/ \E line \in CreateDates : DueDate(line)
    \/ ViewTasks
    \/ \E idTok \in IdTokens, in \in EditInputs : EditTask(idTok, in)
    \/ \E idTok \in IdTokens : DeleteTask(idTok)
    \/ \E path \in Paths : SaveTasks(path)
    \/ \E path \in Paths : LoadTasks(path)
    \/ \E c \in {<<"1">>, <<"3">>, <<"5">>}, v \in {<<"1">>} :
            SearchFilterTasks(c, v)

Spec == Init /\ [][Next]_vars

----------------------------------------------------------------------------
(* A store that only ever creates *)

NextCreate ==
    \/ \E t \in CreateTitles, d \in CreateDescriptions, c \in CreateChoices :
            CreateTask(t, d, c[1], c[2])
    \/ \E line \in CreateDates : DueDate(line)

SpecCreate == Init /\ [][NextCreate]_vars

----------------------------------------------------------------------------
(* Task::serialize and Task::deserialize applied to one record *)

CodecRecords ==
    [id : {0, 7, 12, -3},
     title : {Empty, <<"a">>, <<"a", Pipe, "b">>},
     description : {<<"d">>, <<Pipe>>},
     category : {Work, Personal, Urgent, 4},
     priority : {0, Low, Medium, High},
     dueDate : {Date1, Empty},
     status : Statuses]

InitCodec ==
    /\ task \in CodecRecords
    /\ tasks = << >>
    /\ nextId = 1
    /\ file = NoFile
    /\ pc = "codec"
    /\ cinFail = FALSE
    /\ choice = 0
    /\ idArg = 0
    /\ msg = ""
    /\ issued = {}
    /\ removed = {}
    /\ ops = 0
    /\ typed = NothingTyped
    /\ query = NoQuery
    /\ results = << >>

\* ofs << task.serialize() << "\n", line 402
Encode ==
    /\ pc = "codec"
    /\ ~file.exists
    /\ file' = FileOf(<<serialize(task)>>)
    /\ UNCHANGED <<tasks, nextId, pc, task, cinFail, choice, idArg, msg, issued,
                   removed, ops, typed, query, results>>

\* task.deserialize(line); tasks.push_back(task), lines 425-426
Decode ==
    /\ pc = "codec"
    /\ file.exists
    /\ tasks = << >>
    /\ deserialize(file.lines[1]).ok
    /\ tasks' = push_back(tasks, deserialize(file.lines[1]).t)
    /\ UNCHANGED <<nextId, file, pc, task, cinFail, choice, idArg, msg, issued,
                   removed, ops, typed, query, results>>

NextCodec == Encode \/ Decode

SpecCodec == InitCodec /\ [][NextCodec]_vars

----------------------------------------------------------------------------
(* Task::deserialize applied to lines whose three name fields hold any text *)

CategoryTexts == {S_Work, S_Personal, S_Urgent, S_Unknown, Empty, <<"w", "o", "r", "k">>}
PriorityTexts == {S_Low, S_Medium, S_High, S_Unknown, <<"1">>, <<"L", "O", "W">>}
StatusTexts ==
    {S_Pending, S_InProgress, S_Completed, <<"D", "o", "n", "e">>,
     <<"I", "n", "P", "r", "o", "g", "r", "e", "s", "s">>, <<"P", "e", "n", "d", "i", "n", "g", " ">>}

InitDecode ==
    /\ \E c \in CategoryTexts, p \in PriorityTexts, st \in StatusTexts :
            file = FileOf(<<Line(<<"7">>, <<"a">>, <<"d">>, c, p, Date1, st)>>)
    /\ task = NewTask
    /\ tasks = << >>
    /\ nextId = 1
    /\ pc = "codec"
    /\ cinFail = FALSE
    /\ choice = 0
    /\ idArg = 0
    /\ msg = ""
    /\ issued = {}
    /\ removed = {}
    /\ ops = 0
    /\ typed = NothingTyped
    /\ query = NoQuery
    /\ results = << >>

NextDecode == Decode

SpecDecode == InitDecode /\ [][NextDecode]_vars

----------------------------------------------------------------------------
(* searchFilterTasks applied to the stores of up to MaxTasks records *)

\* the fields the three criteria compare, as create and edit can leave them
FilterFields ==
    { [category |-> Work, priority |-> Low, status |-> Pending],
      [category |-> Urgent, priority |-> High, status |-> Pending],
      [category |-> Work, priority |-> High, status |-> Completed],
      [category |-> Urgent, priority |-> Low, status |-> Completed] }

\* the store after n creates and edits of the three fields: ids 1..n in order
FilterStore(f) ==
    [i \in DOMAIN f |->
        [NewTask EXCEPT !.id = i, !.title = <<"a">>, !.description = <<"d">>,
                        !.category = f[i].category, !.priority = f[i].priority,
                        !.dueDate = Date1, !.status = f[i].status]]

FilterStores ==
    UNION { {FilterStore(f) : f \in [1..n -> FilterFields]} : n \in 0..MaxTasks }

InitFilter ==
    /\ tasks \in FilterStores
    /\ nextId = Len(tasks) + 1
    /\ file = NoFile
    /\ pc = "menu"
    /\ task = NewTask
    /\ cinFail = FALSE
    /\ choice = 0
    /\ idArg = 0
    /\ msg = "Welcome to TaskMaster!"
    /\ issued = 1..Len(tasks)
    /\ removed = {}
    /\ ops = 0
    /\ typed = NothingTyped
    /\ query = NoQuery
    /\ results = << >>

NextFilter ==
    \E c \in {<<"1">>, <<"2">>, <<"3">>, <<"5">>}, v \in {<<"1">>, <<"3">>} :
        SearchFilterTasks(c, v)

SpecFilter == InitFilter /\ [][NextFilter]_vars

----------------------------------------------------------------------------
(* Vocabulary of the properties *)

\* the step in which createTask takes its id, and the one in which it appends
CreateBegins == pc = "menu" /\ pc' = "dueDate"
CreateCompletes == pc = "dueDate" /\ pc' = "menu"

\* a step that is a whole deleteTask call, and one that is a loadTasks call
\* that ran to its last line
DeleteStep == pc = "menu" /\ ops' = ops + 1 /\ choice' = 4
\* a step that is a whole saveTasks call, and one that is a loadTasks call
\* however it ends
SaveCall == pc = "menu" /\ ops' = ops + 1 /\ choice' = 5
LoadCall == pc = "menu" /\ ops' = ops + 1 /\ choice' = 6
\* a step that is a whole searchFilterTasks call
SearchCall == pc = "menu" /\ ops' = ops + 1 /\ choice' = 7
\* the field of record t that criterion 1, 2 or 3 compares
FieldOf(t, criterion) ==
    CASE criterion = 1 -> t.category
      [] criterion = 2 -> t.priority
      [] criterion = 3 -> t.status
\* the positions of s whose record has the value in that field
MatchIdx(s, criterion, value) ==
    {i \in 1..Len(s) : FieldOf(s[i], criterion) = value}
\* the choice 1, 2 or 3 a typed token stands for, 0 for any other token
ChoiceTyped(tok) ==
    IF tok = <<"1">> THEN 1 ELSE IF tok = <<"2">> THEN 2 ELSE IF tok = <<"3">> THEN 3 ELSE 0
\* the first position of s whose record has this id
FirstWithId(s, id) ==
    CHOOSE i \in 1..Len(s) : s[i].id = id /\ \A j \in 1..(i - 1) : s[j].id # id
\* the shape YYYY-MM-DD of the specification: ten characters, the fifth and
\* the eighth a hyphen
DateShape(d) == Len(d) = 10 /\ d[5] = "-" /\ d[8] = "-"
DateSamples ==
    {Date1, Date2, DateSlashes, DateDayFirst, DateShort, Empty, Date1 \o <<"0">>,
     <<"-", "-", "-", "-", "-", "-", "-", "-", "-", "-">>}
\* the text of a line before its first pipe, and whether std::stoi finds a
\* number at its start: blanks, an optional sign, then a digit
IdField(line) ==
    IF \E i \in 1..Len(line) : line[i] = Pipe
    THEN SubSeq(line, 1, (CHOOSE i \in 1..Len(line) :
                             line[i] = Pipe /\ \A j \in 1..(i - 1) : line[j] # Pipe) - 1)
    ELSE line
StartsWithNumber(str) ==
    \E k \in 1..Len(str) :
        /\ str[k] \in {"0", "1", "2", "3", "4", "5", "6", "7", "8", "9"}
        /\ \A j \in 1..(k - 1) :
              str[j] = " " \/ (j = k - 1 /\ str[j] \in {"-", "+"})
HasBadIdLine(f) ==
    /\ f.exists
    /\ \E i \in 1..Len(f.lines) :
          f.lines[i] # Empty /\ ~StartsWithNumber(IdField(f.lines[i]))
\* a step that is a whole editTask call
EditStep == pc = "menu" /\ ops' = ops + 1 /\ choice' = 3
LoadStep ==
    /\ pc = "menu"
    /\ ops' = ops + 1
    /\ choice' = 6
    /\ msg' = "Tasks loaded successfully."

IdsOf(s) == {s[i].id : i \in 1..Len(s)}
MaxOf(S) == CHOOSE m \in S : \A x \in S : x <= m
Count(s, id) == Cardinality({i \in 1..Len(s) : s[i].id = id})
WithoutIndex(s, i) == SubSeq(s, 1, i - 1) \o SubSeq(s, i + 1, Len(s))
NonBlank(lines) == SelectSeq(lines, LAMBDA l : l # Empty)
HasPipe(str) == \E i \in 1..Len(str) : str[i] = Pipe
PipeFree(t) == ~HasPipe(t.title) /\ ~HasPipe(t.description) /\ ~HasPipe(t.dueDate)

----------------------------------------------------------------------------
(* C1: in a fresh store that only creates, the k-th create assigns id k: the
   ids start at 1 and go up by one in the order of the creates. *)
C1_KthCreateGetsIdK ==
    /\ \A k \in 1..Len(tasks) : tasks[k].id = k
    /\ pc = "dueDate" => task.id = Len(tasks) + 1
    /\ issued = 1..(IF pc = "dueDate" THEN Len(tasks) + 1 ELSE Len(tasks))

C1_ThreeCreated ==
    /\ pc = "menu"
    /\ Len(tasks) = 3
    /\ tasks[3].id = 3
    /\ issued = {1, 2, 3}

(* C2: over every interleaving of create, edit, delete, save and load, every
   create assigns an id greater than the id of every earlier create of the
   session. *)
C2_IdsStrictlyIncrease ==
    [][CreateBegins => \A j \in issued : task'.id > j]_vars

(* C3: once a record with id i was removed by delete, no later create gives
   the id i to a new record. *)
C3_IdNeverReused ==
    [][CreateCompletes => tasks'[Len(tasks')].id \notin removed]_vars

(* C4: in every reachable state every record's id is a positive integer and no
   two records of the collection have the same id. *)
C4_IdsPositiveAndUnique ==
    /\ \A i \in 1..Len(tasks) : tasks[i].id >= 1
    /\ \A i, j \in 1..Len(tasks) : i # j => tasks[i].id # tasks[j].id

(* C5: in every reachable state every record has a category in {Work,
   Personal, Urgent}, a priority in {Low, Medium, High} and a status in
   {Pending, InProgress, Completed}, whatever was typed at the prompts. *)
C5_EnumsInRange ==
    \A i \in 1..Len(tasks) :
        /\ tasks[i].category \in Categories
        /\ tasks[i].priority \in Priorities
        /\ tasks[i].status \in Statuses

(* C6: a completed create takes the id nextId had before the call, increments
   nextId by exactly one, appends exactly one record with that id and status
   Pending at the end, and leaves the earlier records and their order alone. *)
C6_CreateAppendsOne ==
    [][ /\ CreateBegins =>
              /\ task'.id = nextId
              /\ nextId' = nextId + 1
              /\ tasks' = tasks
        /\ CreateCompletes =>
              /\ Len(tasks') = Len(tasks) + 1
              /\ SubSeq(tasks', 1, Len(tasks)) = tasks
              /\ tasks'[Len(tasks')].id = task.id
              /\ task.id = nextId - 1
              /\ nextId' = nextId
              /\ tasks'[Len(tasks')].status = Pending ]_vars

C6_SecondRecordCreated ==
    /\ msg = "Task has been created successfully!"
    /\ Len(tasks) = 2
    /\ tasks[2].id = nextId - 1
    /\ tasks[2].status = Pending

(* C7: a load straight after a save to the same path leaves the collection
   equal, record by record and in order, to the collection that was saved,
   when no text field holds a '|'. *)
C7_SaveThenLoadRestores ==
    [][ ( /\ choice = 5
          /\ msg = "Tasks saved successfully."
          /\ LoadStep
          /\ \A i \in 1..Len(tasks) : PipeFree(tasks[i]) )
        => tasks' = tasks ]_vars

(* C8: deserialize(serialize(r)) = r, all seven fields, for every record r
   whose title, description and due date hold no '|'. *)
C8_RoundTrip ==
    (pc = "codec" /\ tasks # << >> /\ PipeFree(task)) => tasks[1] = task

(* C9, as stated: a load that succeeds replaces the collection by the records
   of the file's non-blank lines, in file order, and sets nextId to
   1 + max(ids loaded), or to 1 when no record was loaded. *)
C9_LoadSetsNextIdToMaxPlusOne ==
    [][ LoadStep =>
          LET nb == NonBlank(file.lines)
          IN  /\ Len(tasks') = Len(nb)
              /\ \A i \in 1..Len(nb) : tasks'[i] = deserialize(nb[i]).t
              /\ nextId' = IF tasks' = << >> THEN 1
                           ELSE 1 + MaxOf(IdsOf(tasks')) ]_vars

(* C9, amended: a load that succeeds replaces the collection by the records
   of the file's non-blank lines, in file order, and sets nextId to one more
   than the largest of 0 and the ids loaded. *)
C9_LoadReplacesAndRenumbers ==
    [][ LoadStep =>
          LET nb == NonBlank(file.lines)
          IN  /\ Len(tasks') = Len(nb)
              /\ \A i \in 1..Len(nb) : tasks'[i] = deserialize(nb[i]).t
              /\ nextId' = 1 + MaxOf(IdsOf(tasks') \cup {0}) ]_vars

C9_LoadedIds251OverOwnRecord ==
    /\ msg = "Tasks loaded successfully."
    /\ issued # {}
    /\ Len(tasks) = 3
    /\ <<tasks[1].id, tasks[2].id, tasks[3].id>> = <<2, 5, 1>>
    /\ nextId = 6

(* C10: delete(id) where exactly one record has that id reports success,
   shrinks the collection by exactly one, removes only that record and keeps
   the others in order; a delete of the same id straight after a delete that
   succeeded reports not found and changes nothing. *)
C10_DeleteRemovesOne ==
    [][ /\ (DeleteStep /\ Count(tasks, idArg') = 1) =>
              /\ msg' = "Task deleted successfully."
              /\ Len(tasks') = Len(tasks) - 1
              /\ \E i \in 1..Len(tasks) :
                    /\ tasks[i].id = idArg'
                    /\ tasks' = WithoutIndex(tasks, i)
        /\ ( /\ choice = 4
             /\ msg = "Task deleted successfully."
             /\ DeleteStep
             /\ idArg' = idArg ) =>
              /\ msg' = "Task not found."
              /\ tasks' = tasks
              /\ nextId' = nextId
              /\ file' = file ]_vars

C10_DeletedFromThree ==
    /\ choice = 4
    /\ msg = "Task deleted successfully."
    /\ Len(tasks) = 2
    /\ Count(tasks, idArg) = 0
    /\ removed = {idArg}

(* C11: an edit whose id no record holds reports "Task not found." and leaves
   the store as it was: the collection (its size, its order, every field of
   every record) and nextId; the file is not touched either. *)
C11_EditOfAbsentIdChangesNothing ==
    [][ (EditStep /\ Count(tasks, idArg') = 0) =>
            /\ msg' = "Task not found."
            /\ tasks' = tasks
            /\ nextId' = nextId
            /\ file' = file
            /\ pc' = "menu" ]_vars

C11_AbsentIdOnNonEmptyStore ==
    /\ choice = 3
    /\ msg = "Task not found."
    /\ Len(tasks) >= 2
    /\ Count(tasks, idArg) = 0

(* C12: a save or a load whose file cannot be opened prints its error and
   returns with the collection, nextId and the file as they were, and the menu
   loop goes on; a load of a file that does not exist always ends so, and a
   save that opened its file writes the collection and changes nothing else. *)
C12_OpenFailureChangesNothing ==
    [][ /\ SaveCall =>
              /\ tasks' = tasks
              /\ nextId' = nextId
              /\ pc' = "menu"
              /\ \/ msg' = "Error opening file for writing." /\ file' = file
                 \/ /\ msg' = "Tasks saved successfully."
                    /\ file' = FileOf(SaveLines(tasks))
        /\ (LoadCall /\ (~file.exists \/ msg' = "Error opening file for reading.")) =>
              /\ msg' = "Error opening file for reading."
              /\ tasks' = tasks
              /\ nextId' = nextId
              /\ file' = file
              /\ pc' = "menu" ]_vars

C12_LoadOfMissingFileOnNonEmptyStore ==
    /\ choice = 6
    /\ msg = "Error opening file for reading."
    /\ ~file.exists
    /\ Len(tasks) >= 1
    /\ nextId > 1
    /\ pc = "menu"

(* C13: a menu choice that is no number or is out of range is never fatal:
   whenever the loop awaits a choice (and the session may still read one), the
   user can still have Exit read and executed, which ends the process. *)
C13_ExitStaysAvailable ==
    (pc = "menu" /\ ops < MaxOps) => ENABLED Exit

(* C14: a filter by category, priority or status shows exactly the records
   whose field equals the value, each once and in the order of the collection
   (none when nothing matches), and changes neither the collection nor nextId. *)
C14_FilterShowsTheMatchesInOrder ==
    [][ SearchCall =>
            /\ tasks' = tasks
            /\ nextId' = nextId
            /\ file' = file
            /\ query'[1] \in 1..3 =>
                  LET idx == MatchIdx(tasks, query'[1], query'[2])
                  IN  /\ Len(results') = Cardinality(idx)
                      /\ \A k \in 1..Len(results') :
                            \E i \in idx :
                                /\ Cardinality({j \in idx : j < i}) = k - 1
                                /\ results'[k] = tasks[i]
                      /\ msg' = IF idx = {} THEN "No tasks match the criteria."
                                ELSE "ID: " ]_vars

C14_TwoPendingOfThreeShown ==
    /\ query = <<3, Pending>>
    /\ Len(tasks) = 3
    /\ tasks[1].status = Pending
    /\ tasks[2].status = Completed
    /\ tasks[3].status = Pending
    /\ results = <<tasks[1], tasks[3]>>

(* C15: an edit that finds its record changes that record only, and in it
   only the fields for which a non-empty text or a choice in 1..3 was typed: an
   empty title, description or due date line keeps the field, a category,
   priority or status choice outside 1..3 is ignored without a message; the
   record's id, the size and order of the collection, every other record and
   nextId stay as they were. *)
C15_EditChangesOnlyWhatWasTyped ==
    [][ (EditStep /\ Count(tasks, idArg') >= 1) =>
            LET it == FirstWithId(tasks, idArg')
                old == tasks[it]
                new == tasks'[it]
                in == typed'
            IN  /\ msg' = "Task updated successfully!"
                /\ Len(tasks') = Len(tasks)
                /\ \A j \in 1..Len(tasks) : j # it => tasks'[j] = tasks[j]
                /\ nextId' = nextId
                /\ file' = file
                /\ new.id = old.id
                /\ new.title = IF in.title = Empty THEN old.title ELSE in.title
                /\ new.description =
                       IF in.description = Empty THEN old.description
                       ELSE in.description
                /\ new.category =
                       IF ChoiceTyped(in.category) = 0 THEN old.category
                       ELSE ChoiceTyped(in.category)
                /\ new.priority =
                       IF ChoiceTyped(in.priority) = 0 THEN old.priority
                       ELSE ChoiceTyped(in.priority)
                /\ new.dueDate =
                       IF in.dueDate \in {Date1, Date2} THEN in.dueDate
                       ELSE old.dueDate
                /\ new.status =
                       IF ChoiceTyped(in.status) = 0 THEN old.status
                       ELSE ChoiceTyped(in.status) ]_vars

C15_OnlyStatusOfSecondRecordEdited ==
    /\ choice = 3
    /\ msg = "Task updated successfully!"
    /\ typed.title = Empty
    /\ typed.dueDate = Empty
    /\ typed.status = <<"2">>
    /\ Len(tasks) = 2
    /\ tasks[2].id = idArg
    /\ tasks[1].id # idArg
    /\ tasks[2].status = InProgress
    /\ tasks[2].title = <<"a">>
    /\ tasks[2].dueDate = Date1
    /\ tasks[1].status = Pending

(* C16: validateDate accepts a text exactly when it has ten characters with a
   hyphen at indices 4 and 7 (it accepts 2024-05-15 and 9999-99-99 and rejects
   2024/05/15, 15-05-2024 and 2024-5-15). A create whose date line is rejected
   asks again and appends nothing; it appends only with an accepted date. An
   edit with a rejected date line keeps the record's date. So a create or an
   edit only ever stores an accepted due date. *)
C16_OnlyAcceptedDatesAreStored ==
    [][ /\ \A d \in DateSamples : validateDate(d) <=> DateShape(d)
        /\ validateDate(Date1) /\ validateDate(Date2)
        /\ ~validateDate(DateSlashes)
        /\ ~validateDate(DateDayFirst)
        /\ ~validateDate(DateShort)
        /\ (pc = "dueDate" /\ pc' = "dueDate") =>
              /\ tasks' = tasks
              /\ ~DateShape(task'.dueDate)
              /\ msg' = "Invalid date format. Please try again."
        /\ CreateCompletes =>
              /\ Len(tasks') = Len(tasks) + 1
              /\ DateShape(tasks'[Len(tasks')].dueDate)
        /\ (EditStep /\ Count(tasks, idArg') >= 1) =>
              LET it == FirstWithId(tasks, idArg')
              IN  /\ tasks'[it].dueDate # tasks[it].dueDate =>
                        /\ tasks'[it].dueDate = typed'.dueDate
                        /\ DateShape(tasks'[it].dueDate)
                  /\ ~DateShape(typed'.dueDate) =>
                        tasks'[it].dueDate = tasks[it].dueDate ]_vars

C16_RejectedDateAsksAgain ==
    /\ pc = "dueDate"
    /\ msg = "Invalid date format. Please try again."
    /\ task.dueDate = DateShort
    /\ Len(tasks) >= 1
    /\ \A i \in 1..Len(tasks) : tasks[i].id # task.id

(* C17: in every reachable state, a delete that succeeds removes the first
   record with the id and that record only: the collection shrinks by exactly
   one and the other records stay in their order. *)
C17_DeleteRemovesExactlyOne ==
    [][ (DeleteStep /\ msg' = "Task deleted successfully.") =>
            /\ Len(tasks') = Len(tasks) - 1
            /\ tasks' = WithoutIndex(tasks, FirstWithId(tasks, idArg')) ]_vars

(* C18: a load that opens a file holding a non-blank line whose id field is no
   number ends the whole program: the load does not report success, and from
   then on no step is taken, so no menu operation runs and the menu never
   awaits a choice again. *)
C18_BadIdLineAbortsTheProgram ==
    [][ /\ ( /\ LoadCall
             /\ HasBadIdLine(file)
             /\ msg' # "Error opening file for reading." ) =>
              /\ pc' = "aborted"
              /\ msg' # "Tasks loaded successfully."
        /\ pc # "aborted"
        /\ pc' = "aborted" => (LoadCall /\ HasBadIdLine(file)) ]_vars

C18_AbortedWithOwnRecordLost ==
    /\ pc = "aborted"
    /\ choice = 6
    /\ HasBadIdLine(file)
    /\ issued # {}
    /\ ops < MaxOps

RECURSIVE SplitPipes(_)
\* the fields of a line: the texts between its pipes
SplitPipes(str) ==
    IF HasPipe(str)
    THEN LET i == CHOOSE i \in 1..Len(str) :
                     str[i] = Pipe /\ \A j \in 1..(i - 1) : str[j] # Pipe
         IN  <<SubSeq(str, 1, i - 1)>> \o SplitPipes(SubSeq(str, i + 1, Len(str)))
    ELSE <<str>>

(* C19: deserialize reads the names Work, Personal, Urgent / Low, Medium, High /
   Pending, In Progress, Completed back as their enum values, and reads any
   other text in the category, priority or status field as the last value
   (Urgent, High, Completed), without an error. *)
C19_NamesReadBackOthersAsLast ==
    (pc = "codec" /\ file.exists /\ Len(SplitPipes(file.lines[1])) = 7) =>
        LET f == SplitPipes(file.lines[1])
        IN  /\ deserialize(file.lines[1]).ok
            /\ tasks # << >> =>
                  /\ tasks[1].category =
                        (IF f[4] = <<"W", "o", "r", "k">> THEN Work
                         ELSE IF f[4] = <<"P", "e", "r", "s", "o", "n", "a", "l">>
                              THEN Personal
                         ELSE Urgent)
                  /\ tasks[1].priority =
                        (IF f[5] = <<"L", "o", "w">> THEN Low
                         ELSE IF f[5] = <<"M", "e", "d", "i", "u", "m">> THEN Medium
                         ELSE High)
                  /\ tasks[1].status =
                        (IF f[7] = <<"P", "e", "n", "d", "i", "n", "g">> THEN Pending
                         ELSE IF f[7] = <<"I", "n", " ", "P", "r", "o", "g", "r", "e", "s", "s">>
                              THEN InProgress
                         ELSE Completed)

C19_UnknownTextsReadAsLast ==
    /\ pc = "codec"
    /\ tasks # << >>
    /\ SplitPipes(file.lines[1])[4] = <<"w", "o", "r", "k">>
    /\ SplitPipes(file.lines[1])[5] = <<"M", "e", "d", "i", "u", "m">>
    /\ SplitPipes(file.lines[1])[7] = <<"D", "o", "n", "e">>
    /\ tasks[1].category = Urgent
    /\ tasks[1].priority = Medium
    /\ tasks[1].status = Completed

(* C20: while the program runs, nextId is at least 1 and above the id of every
   record of the collection, so the id a create takes is the id of no record
   the collection holds. *)
C20_NextIdAboveEveryId ==
    pc \in {"menu", "dueDate", "exited"} =>
        /\ nextId >= 1
        /\ \A i \in 1..Len(tasks) : tasks[i].id < nextId
        /\ pc = "dueDate" =>
              /\ task.id = nextId - 1
              /\ \A i \in 1..Len(tasks) : tasks[i].id # task.id

C20_CreatedAfterLoadAndDelete ==
    /\ msg = "Task has been created successfully!"
    /\ file = FileOf(FileDuplicateIds)
    /\ removed = {0}
    /\ Len(tasks) = 3
    /\ tasks[1].id = 1
    /\ tasks[2].id = 1
    /\ tasks[3].id = 2
    /\ nextId = 3

====
